---- MODULE Spec2Model ----
(***************************************************************************)
(* Model of the dashboard data coordinator: the useCoinDashboard hook      *)
(* (filters, snapshot and series fetch cycles, reconciliation, polling     *)
(* loop) together with the FilterPanel handlers that drive it and the      *)
(* request layer of services/coingecko.                                    *)
(*                                                                         *)
(* A CoinMarket row is represented by its id, a market snapshot by the     *)
(* sequence of its ids in market-cap order, a historical series by the     *)
(* request it answers.  A value of type `T | null` is the empty sequence   *)
(* (null) or a one-element sequence.                                       *)
(***************************************************************************)
EXTENDS Integers, Sequences, FiniteSets, Bags, TLC

VARIABLES
  env,                  \* import.meta.env.VITE_AUTO_REFRESH_MS
  config,               \* import.meta.env as services/coingecko.ts reads it
  provider,             \* what the market data provider may answer
  hidden,               \* document.hidden
  filters,              \* useState: DashboardFilters
  availableCoins,       \* useState: CoinMarket[]
  selectedCoinMarkets,  \* useState: CoinMarket[]
  chartData,            \* useState: MarketChartResponse | null
  loadingMarkets,       \* useState: boolean
  loadingChart,         \* useState: boolean
  error,                \* useState: string | null
  lastUpdated,          \* useState: Date | null
  fetches,              \* bag of the loader calls awaiting their response
  poll,                 \* the refs of the live polling effect instance
  timer,                \* the timeout of the live polling effect instance
  userActions,          \* history: the user actions handled so far
  retry,                \* history: the refreshData call whose loaders are pending
  last                  \* history: the loader the last step settled, if any

vars == <<env, config, provider, hidden, filters, availableCoins, selectedCoinMarkets,
          chartData, loadingMarkets, loadingChart, error, lastUpdated,
          fetches, poll, timer, userActions, retry, last>>

\* The state the hook exposes to the presentation layer.
CoordState == <<filters, availableCoins, selectedCoinMarkets, chartData,
                loadingMarkets, loadingChart, error, lastUpdated>>

(***************************************************************************)
(* Bounds of the model                                                     *)
(***************************************************************************)
MaxInFlight == 4      \* loader calls awaiting a response at one time
MaxUserActions == 3   \* panel changes and refresh clicks in one run
RandSteps == 3        \* Math.random() takes the values r / RandSteps
MaxStreak == 3        \* consecutive failed polling attempts that are counted
MaxSelected == 3      \* coins selected when a reconciliation starts
MaxCounted == 3       \* runs of the markets effect that are counted

CoinRank == <<"bitcoin", "ethereum", "solana", "cardano">>
Currencies == {"usd", "eur"}
TimeRanges == {30, 7}

Null == <<>>
Some(v) == <<v>>

Min(a, b) == IF a <= b THEN a ELSE b
Max(a, b) == IF a >= b THEN a ELSE b
Range(s) == {s[i] : i \in 1..Len(s)}

(***************************************************************************)
(* Array helpers                                                           *)
(***************************************************************************)
\* Array.prototype.includes
Includes(s, x) == \E i \in 1..Len(s) : s[i] = x

\* Array.prototype.filter, keeping the elements that satisfy Keep
RECURSIVE FilterKeep(_, _)
FilterKeep(s, keep) ==
  IF s = <<>> THEN <<>>
  ELSE IF Head(s) \in keep THEN <<Head(s)>> \o FilterKeep(Tail(s), keep)
       ELSE FilterKeep(Tail(s), keep)

\* Array.prototype.filter, dropping every occurrence of x
WithoutNothing(s, x) == s

RECURSIVE Without(_, _)
Without(s, x) ==
  IF s = <<>> THEN <<>>
  ELSE IF Head(s) = x THEN Without(Tail(s), x)
       ELSE <<Head(s)>> \o Without(Tail(s), x)

areArraysEqualByIdentity(a, b) == FALSE

areArraysEqual(a, b) ==
  IF Len(a) # Len(b) THEN FALSE
  ELSE \A index \in 1..Len(a) : a[index] = b[index]

(***************************************************************************)
(* Configuration                                                           *)
(***************************************************************************)
\* VITE_AUTO_REFRESH_MS as the build sees it: undefined, or a string that
\* is a number (num) or is none (Number() gives NaN).
EnvUnset == [tag |-> "undefined", num |-> 0]
EnvNaN == [tag |-> "NaN", num |-> 0]
EnvNum(n) == [tag |-> "number", num |-> n]

\* Number((env as string) ?? 0) || 0
ParseAutoRefresh(e) ==
  IF e.tag = "undefined" THEN 0
  ELSE IF e.tag = "NaN" THEN 0
  ELSE e.num

AUTO_REFRESH_MS == ParseAutoRefresh(env)

PollingEnabledNonZero == AUTO_REFRESH_MS # 0

\* the guard of the polling effect: !AUTO_REFRESH_MS || AUTO_REFRESH_MS <= 0
PollingEnabled == ~(AUTO_REFRESH_MS = 0 \/ AUTO_REFRESH_MS <= 0)

MAX_SELECTION == 5

DEFAULT_FILTERS ==
  [vsCurrency |-> "usd", timeRange |-> 30, selectedCoins |-> <<>>, primaryCoin |-> ""]

(***************************************************************************)
(* services/coingecko: request()                                           *)
(***************************************************************************)
\* import.meta.env of a production build with no VITE_COINGECKO_* variable
Unconfigured ==
  [VITE_COINGECKO_API_KEY |-> "", VITE_COINGECKO_API_ROOT |-> "",
   VITE_COINGECKO_USE_PRO_API |-> "", DEV |-> FALSE]

\* (value as string) || undefined: an empty or missing variable is undefined
OrUndefined(value) == IF value = "" THEN Null ELSE Some(value)

ENV_API_KEY == OrUndefined(config.VITE_COINGECKO_API_KEY)
ENV_API_ROOT == OrUndefined(config.VITE_COINGECKO_API_ROOT)
ENV_USE_PRO == config.VITE_COINGECKO_USE_PRO_API = "true"
API_KEY == ENV_API_KEY

PublicApi == "https://api.coingecko.com/api/v3"
ProApi == "https://pro-api.coingecko.com/api/v3"
DevProxy == "/api/coingecko"
OwnProxy == "https://mi-proxy.local"

API_BASE ==
  IF ENV_API_ROOT # Null THEN ENV_API_ROOT[1]
  ELSE IF config.DEV THEN DevProxy
  ELSE IF ENV_USE_PRO THEN ProApi
  ELSE IF API_KEY # Null THEN ProApi
  ELSE PublicApi

\* base.includes("pro-api"), over the bases above
IncludesProApi(base) == base = ProApi

defaultHeaders ==
  IF API_KEY # Null /\ IncludesProApi(API_BASE)
    THEN [Accept |-> "application/json", xCgProApiKey |-> API_KEY[1]]
  ELSE [Accept |-> "application/json"]

\* The endpoint a request to base reaches: the development server forwards
\* /api/coingecko to /api/v3 of the public API.
Endpoint(base) == IF base = DevProxy THEN PublicApi ELSE base

\* What fetch() gives for one request: an HTTP response, or a rejection
\* (status 0) with the TypeError's message in body.  retryAfter is the
\* Retry-After header as Number() reads it, 0 when the header is absent.
HttpOk(rows) == [status |-> 200, rows |-> rows, body |-> "", retryAfter |-> 0]
HttpFail(status, body, retryAfter) ==
  [status |-> status, rows |-> <<>>, body |-> body, retryAfter |-> retryAfter]

\* fetch() rejects a request whose signal is aborted
AbortRejection == HttpFail(0, "The operation was aborted.", 0)

requestIgnoresStatus(resp) ==
  IF resp.status = 0
    THEN [ok |-> FALSE, rows |-> <<>>, class |-> "Rejection",
          message |-> resp.body, retryAfter |-> 0]
  ELSE [ok |-> TRUE, rows |-> resp.rows, class |-> "", message |-> "", retryAfter |-> 0]

\* The outcome of request(): the parsed rows, or the error it throws.  The
\* 429 branch throws an instance of the class declared inside request(),
\* which is not the exported RateLimitError.
request(resp) ==
  IF resp.status = 0
    THEN [ok |-> FALSE, rows |-> <<>>, class |-> "Rejection",
          message |-> resp.body, retryAfter |-> 0]
  ELSE IF resp.status = 429
    THEN [ok |-> FALSE, rows |-> <<>>, class |-> "request.RateLimitError",
          message |-> "Rate limit exceeded", retryAfter |-> resp.retryAfter]
  ELSE IF resp.status < 200 \/ resp.status > 299
    THEN [ok |-> FALSE, rows |-> <<>>, class |-> "Error",
          message |-> IF resp.body # "" THEN resp.body
                      ELSE "CoinGecko request failed with status",
          retryAfter |-> 0]
  ELSE [ok |-> TRUE, rows |-> resp.rows, class |-> "", message |-> "", retryAfter |-> 0]

(***************************************************************************)
(* useCoinDashboard: error classification of the two loaders               *)
(***************************************************************************)
\* err instanceof RateLimitError, the class exported by services/coingecko
IsRateLimitError(err) == err.class = "RateLimitError"

\* the messages of the browsers' fetch rejections that are modelled
ChromeRejection == "TypeError: Failed to fetch"
FirefoxRejection == "NetworkError when attempting to fetch resource."

\* msg.includes(part), over the messages of the model
StringIncludes(msg, part) ==
  \/ msg = part
  \/ msg = ChromeRejection /\ part = "Failed to fetch"
  \/ msg = FirefoxRejection /\ part = "NetworkError"

IsConnectivityMessageExact(msg) == msg \in {"Failed to fetch", "NetworkError"}

\* msg.includes("Failed to fetch") || msg.includes("NetworkError")
IsConnectivityMessage(msg) ==
  StringIncludes(msg, "Failed to fetch") \/ StringIncludes(msg, "NetworkError")

\* a message without parameter, and t(key, { n }): the translated message
\* key with n filled in
Message(text) == [text |-> text, n |-> 0]
t(key, n) == [text |-> key, n |-> n]

\* What the catch block hands to setError.
ErrorMessage(err, fallback) ==
  IF IsRateLimitError(err)
    THEN IF err.retryAfter > 0 THEN t("rateLimitMessage", err.retryAfter)
         ELSE t("rateLimitRetryLater", 0)
  ELSE IF IsConnectivityMessage(err.message)
    THEN Message("No se pudo conectar con CoinGecko. Revisa tu conexion o intenta de nuevo.")
  ELSE IF err.message # "" THEN Message(err.message)
  ELSE Message(fallback)

(***************************************************************************)
(* useCoinDashboard: reconciliation in loadMarketOverview                  *)
(***************************************************************************)
FilteredUnfiltered(selectedCoins, data) == selectedCoins

\* filters.selectedCoins.filter((coinId) => data.some((coin) => coin.id === coinId))
Filtered(selectedCoins, data) == FilterKeep(selectedCoins, Range(data))

NextPrimaryKeepsOld(filtered, primaryCoin) == primaryCoin

NextPrimaryKeepsPlaceholder(filtered, primaryCoin) ==
  IF primaryCoin = "" \/ Includes(filtered, primaryCoin) THEN primaryCoin
  ELSE IF Len(filtered) > 0 THEN filtered[1]
  ELSE ""

\* filtered.includes(filters.primaryCoin) ? filters.primaryCoin : filtered[0] ?? ""
NextPrimary(filtered, primaryCoin) ==
  IF Includes(filtered, primaryCoin) THEN primaryCoin
  ELSE IF Len(filtered) > 0 THEN filtered[1]
  ELSE ""

\* the guard of the combined setFiltersState call
ReconcileWrites(closure, data) ==
  LET filtered == Filtered(closure.selectedCoins, data)
  IN  \/ ~areArraysEqual(filtered, closure.selectedCoins)
      \/ NextPrimary(filtered, closure.primaryCoin) # closure.primaryCoin

\* setFiltersState((prev) => ({...prev, selectedCoins, primaryCoin}))
Reconciled(prev, closure, data) ==
  LET filtered == Filtered(closure.selectedCoins, data)
  IN  IF ReconcileWrites(closure, data)
        THEN [prev EXCEPT !.selectedCoins = filtered,
                          !.primaryCoin = NextPrimary(filtered, closure.primaryCoin)]
        ELSE prev

SelectedMarketsInSnapshotOrder(closure, data) ==
  FilterKeep(data, Range(closure.selectedCoins))

\* fallbackSelected.map((coinId) => data.find(...)).filter(Boolean), a
\* snapshot entry being identified by its id
SelectedMarkets(closure, data) ==
  FilterKeep(Filtered(closure.selectedCoins, data), Range(data))

(***************************************************************************)
(* useCoinDashboard: the polling effect's scheduleNext                     *)
(***************************************************************************)
\* Math.round of the rational num / den (den > 0): floor(x + 1/2)
Round(num, den) == (2 * num + den) \div (2 * den)

NoTimer == [pending |-> FALSE, base |-> 0, delay |-> 0, hidden |-> FALSE]

\* Math.random() * 0.2 - 0.1 with Math.random() = r / RandSteps, as the
\* rational JitterNum(r) / JitterDen
JitterNum(r) == 2 * r - RandSteps
JitterDen == 10 * RandSteps

\* Math.min(2 ** failureCountRef.current, 8)
Backoff(failureCount) == Min(2 ^ failureCount, 8)

HiddenFloorNone(next, isHidden) == next

\* if (document.hidden) next = Math.max(next, AUTO_REFRESH_MS * 6)
HiddenFloor(next, isHidden) ==
  IF isHidden THEN Max(next, AUTO_REFRESH_MS * 6) ELSE next

JitteredDouble(next, r) == Max(1000, next + Round(2 * next * JitterNum(r), JitterDen))

\* next = Math.max(1000, next + Math.round(next * (Math.random() * 0.2 - 0.1)))
Jittered(next, r) == Max(1000, next + Round(next * JitterNum(r), JitterDen))

\* the values r / RandSteps of Math.random(), which only scheduleNext calls
Draws == IF PollingEnabled THEN 0..(RandSteps - 1) ELSE {0}

\* The timeout scheduleNext creates: delay is what setTimeout gets.  base
\* and hidden are history: the delay before jitter, and document.hidden
\* when it was computed.
scheduleNext(failureCount, isHidden, r) ==
  LET next == HiddenFloor(AUTO_REFRESH_MS * Backoff(failureCount), isHidden)
  IN  [pending |-> TRUE, base |-> next, delay |-> Jittered(next, r),
       hidden |-> isHidden]

(***************************************************************************)
(* Loader calls in flight                                                  *)
(***************************************************************************)
\* the values loadMarketOverview closes over: its useCallback deps
MarketsDeps(f) ==
  [selectedCoins |-> f.selectedCoins, primaryCoin |-> f.primaryCoin,
   vsCurrency |-> f.vsCurrency]

\* the values loadChart closes over: its useCallback deps
ChartDeps(f) ==
  [primaryCoin |-> f.primaryCoin, timeRange |-> f.timeRange,
   vsCurrency |-> f.vsCurrency]

Deps(kind, f) == IF kind = "markets" THEN MarketsDeps(f) ELSE ChartDeps(f)

\* One call of loadMarketOverview ("markets") or loadChart ("chart") that
\* awaits its response.  closure holds the filters its callback closed
\* over; aborted is signal.aborted; live says that it belongs to the
\* attempt of the polling instance that is not torn down; base and headers
\* are what request() passes to fetch(); run is history, see below.
Loader(kind, origin, f) ==
  [kind |-> kind, origin |-> origin, closure |-> Deps(kind, f),
   aborted |-> FALSE, live |-> origin = "poll",
   base |-> API_BASE, headers |-> defaultHeaders, run |-> 0]

\* The call of loadMarketOverview by the markets effect.  run is history:
\* 1 for a run that a user action or the mount caused, and one more than
\* the run of the call whose reconciliation write caused it otherwise.
MarketsEffectLoader(f, run) == [Loader("markets", "effect", f) EXCEPT !.run = run]

RECURSIVE BagOfSeq(_)
BagOfSeq(s) ==
  IF s = <<>> THEN EmptyBag ELSE SetToBag({Head(s)}) (+) BagOfSeq(Tail(s))

RECURSIVE SumCopies(_, _)
SumCopies(S, b) ==
  IF S = {} THEN 0
  ELSE LET x == CHOOSE y \in S : TRUE
       IN  CopiesIn(x, b) + SumCopies(S \ {x}, b)

\* the loader calls whose signal is not aborted
InFlight(b) == SumCopies({f \in BagToSet(b) : ~f.aborted}, b)

\* a loader whose signal was aborted: fetch() has rejected, and its
\* continuation runs before any other event is handled
AbortedPending == \E f \in BagToSet(fetches) : f.aborted

\* useCallback deps of loadMarketOverview: primaryCoin, selectedCoins (by
\* identity: newArray), vsCurrency
MarketsCallbackChanged(old, new, newArray) ==
  \/ old.primaryCoin # new.primaryCoin
  \/ newArray
  \/ old.vsCurrency # new.vsCurrency

\* useCallback deps of loadChart: primaryCoin, timeRange, vsCurrency
ChartCallbackChanged(old, new) ==
  \/ old.primaryCoin # new.primaryCoin
  \/ old.timeRange # new.timeRange
  \/ old.vsCurrency # new.vsCurrency

\* deps of the polling effect: AUTO_REFRESH_MS, loadMarketOverview, loadChart
PollingEffectReruns(old, new, newArray) ==
  PollingEnabled /\ (MarketsCallbackChanged(old, new, newArray) \/ ChartCallbackChanged(old, new))

\* the cleanups `() => controller.abort()` of the two fetch effects
EffectAborts(f, mChanged, cChanged) ==
  \/ f.aborted
  \/ /\ f.origin = "effect"
     /\ \/ f.kind = "markets" /\ mChanged
        \/ f.kind = "chart" /\ cChanged

\* One loader after the effect cleanups that run when a render follows a
\* filters change: the fetch effects abort their controller, the polling
\* effect sets `cancelled`.
Cleaned(f, old, new, newArray) ==
  [f EXCEPT
     !.aborted = EffectAborts(f, MarketsCallbackChanged(old, new, newArray),
                              ChartCallbackChanged(old, new)),
     !.live = f.live /\ ~PollingEffectReruns(old, new, newArray)]

Cleanup(b, old, new, newArray) ==
  LET S == BagToSet(b)
      T == {Cleaned(f, old, new, newArray) : f \in S}
  IN  [g \in T |-> SumCopies({f \in S : Cleaned(f, old, new, newArray) = g}, b)]

\* the chart effect's guard: if (!filters.primaryCoin) return
ChartEffectFetches(new) == new.primaryCoin # ""

AttemptIssuesAlways(isHidden) == TRUE

\* attemptFetch, called when a polling instance starts or its timer fires:
\* it issues requests unless the page is hidden
AttemptIssues(isHidden) == ~isHidden

\* Promise.all([loadMarketOverview(signal), loadChart(signal)])
AttemptLoaders(origin, f) == <<Loader("markets", origin, f), Loader("chart", origin, f)>>

\* The loader calls the effects start after such a render.
Started(old, new, newArray, isHidden, run) ==
     (IF MarketsCallbackChanged(old, new, newArray)
        THEN <<MarketsEffectLoader(new, run)>> ELSE <<>>)
  \o (IF ChartCallbackChanged(old, new) /\ ChartEffectFetches(new)
        THEN <<Loader("chart", "effect", new)>> ELSE <<>>)
  \o (IF PollingEffectReruns(old, new, newArray) /\ AttemptIssues(isHidden)
        THEN AttemptLoaders("poll", new) ELSE <<>>)

StartsKind(started, kind) == \E i \in 1..Len(started) : started[i].kind = kind

\* The refs of a polling instance.  pending counts the loaders of its
\* attempt that have not settled.  failed and streak are history: a loader
\* of the attempt reported an error; the attempts in a row that had one.
PollIdle ==
  [isFetching |-> FALSE, failureCount |-> 0, pending |-> 0, failed |-> FALSE, streak |-> 0]

PollAttempting(p) == [p EXCEPT !.isFetching = TRUE, !.pending = 2, !.failed = FALSE]

\* The state of a polling instance right after `attemptFetch()` at its start.
PollStarted(isHidden) ==
  IF AttemptIssues(isHidden) THEN PollAttempting(PollIdle) ELSE PollIdle

TimerStarted(isHidden, r) ==
  IF AttemptIssues(isHidden) THEN NoTimer ELSE scheduleNext(0, isHidden, r)

\* The render after filters became `new` and the effects it runs, on top of
\* the loader calls b, loading flags lm and lc, polling refs p and timer tm
\* that the handler left; run is the history of the markets effect's call.
Render(new, newArray, b, lm, lc, p, tm, r, run) ==
  LET started == Started(filters, new, newArray, hidden, run)
      reruns == PollingEffectReruns(filters, new, newArray)
  IN  /\ filters' = new
      /\ fetches' = Cleanup(b, filters, new, newArray) (+) BagOfSeq(started)
      /\ InFlight(fetches') <= MaxInFlight
      /\ loadingMarkets' = (lm \/ StartsKind(started, "markets"))
      /\ loadingChart' = (lc \/ StartsKind(started, "chart"))
      /\ poll' = IF reruns THEN PollStarted(hidden) ELSE p
      /\ timer' = IF reruns THEN TimerStarted(hidden, r) ELSE tm

(***************************************************************************)
(* FilterPanel handlers (updaters handed to setFilters)                    *)
(***************************************************************************)
NextPrimaryOnRemoveKeepsOld(remaining, primaryCoin) == primaryCoin

\* nextPrimary ?? remaining[0] ?? prev.primaryCoin, with
\* nextPrimary = remaining.includes(prev.primaryCoin) ? prev.primaryCoin : remaining[0]
NextPrimaryOnRemove(remaining, primaryCoin) ==
  IF Includes(remaining, primaryCoin) THEN primaryCoin
  ELSE IF Len(remaining) > 0 THEN remaining[1]
  ELSE primaryCoin

ToggleReturnsPrevNoLimit(prev, coinId) ==
  Includes(prev.selectedCoins, coinId) /\ Len(prev.selectedCoins) = 1

ToggleReturnsPrevNoKeepOne(prev, coinId) ==
  ~Includes(prev.selectedCoins, coinId) /\ Len(prev.selectedCoins) >= MAX_SELECTION

\* history of refreshData: failed says that a loader of the pending call
\* reported an error, overlapped that the call was made while loaders of
\* an earlier call were pending.
RetryIdle == [failed |-> FALSE, overlapped |-> FALSE]

RefreshInFlight(b) == \E f \in BagToSet(b) : f.origin = "refresh"

RetryKept == IF RefreshInFlight(fetches) THEN retry ELSE RetryIdle

RetryStarted ==
  IF RefreshInFlight(fetches) THEN [retry EXCEPT !.overlapped = TRUE] ELSE RetryIdle

RetryAfter(f, ok) ==
  IF f.origin = "refresh" THEN [retry EXCEPT !.failed = @ \/ ~ok] ELSE RetryKept

\* the updater of handleCoinToggle returns prev itself
ToggleReturnsPrev(prev, coinId) ==
  IF Includes(prev.selectedCoins, coinId)
    THEN Len(prev.selectedCoins) = 1
    ELSE Len(prev.selectedCoins) >= MAX_SELECTION

\* the updater of handleCoinToggle
ToggleUpdater(prev, coinId) ==
  IF ToggleReturnsPrev(prev, coinId) THEN prev
  ELSE IF Includes(prev.selectedCoins, coinId)
    THEN LET remaining == Without(prev.selectedCoins, coinId)
         IN  [prev EXCEPT !.selectedCoins = remaining,
                          !.primaryCoin = NextPrimaryOnRemove(remaining, prev.primaryCoin)]
  ELSE [prev EXCEPT !.selectedCoins = Append(prev.selectedCoins, coinId)]

\* the page takes input: it is visible and no continuation is pending
Interactive == ~hidden /\ ~AbortedPending /\ userActions < MaxUserActions

\* App passes disabled={loadingMarkets} to the panel
PanelEnabled == Interactive /\ ~loadingMarkets

\* the options of the primary select: the placeholder and the selected coins
PrimaryOptions == {""} \cup Range(filters.selectedCoins)

\* the coins the panel offers for toggling: the grid and the selected chips
ToggleOptions == Range(availableCoins) \cup Range(filters.selectedCoins)

\* history: the last step settled no loader; fired says that it was the
\* polling timeout calling attemptFetch
NoLast == [settled |-> FALSE, fired |-> FALSE]
TimerFired == [settled |-> FALSE, fired |-> TRUE]

\* history: the last step was a call of setFilters in state prev with an
\* updater that returned updated
Updated(prev, updated) ==
  [settled |-> FALSE, fired |-> FALSE, prev |-> prev, updater |-> updated]

setFiltersDefaulting(prev, updated) ==
  IF updated.selectedCoins = <<>>
    THEN [updated EXCEPT !.selectedCoins = <<"bitcoin">>, !.primaryCoin = "bitcoin"]
    ELSE updated

\* setFiltersState((prev) => { const next = updater(prev); return { ...next }; })
setFilters(prev, updated) == updated

\* setFilters(updater) followed by the render, when the state changed
SetFilters(new, newArray, r) ==
  /\ userActions' = userActions + 1
  /\ retry' = RetryKept
  /\ Render(setFilters(filters, new), newArray, fetches, loadingMarkets, loadingChart,
            poll, timer, r, 1)
  /\ last' = Updated(filters, new)
  /\ UNCHANGED <<env, config, provider, hidden, availableCoins, selectedCoinMarkets,
                 chartData, error, lastUpdated>>

handleCurrencyChange ==
  /\ PanelEnabled
  /\ \E value \in Currencies \ {filters.vsCurrency}, r \in Draws :
       SetFilters([filters EXCEPT !.vsCurrency = value], FALSE, r)

handlePrimaryChange ==
  /\ PanelEnabled
  /\ Len(filters.selectedCoins) # 0
  /\ \E value \in PrimaryOptions \ {filters.primaryCoin}, r \in Draws :
       SetFilters([filters EXCEPT !.primaryCoin = value], FALSE, r)

handleRangeChange ==
  /\ PanelEnabled
  /\ \E value \in TimeRanges \ {filters.timeRange}, r \in Draws :
       SetFilters([filters EXCEPT !.timeRange = value], FALSE, r)

handleCoinToggle ==
  /\ PanelEnabled
  /\ \E coinId \in ToggleOptions, r \in Draws :
       IF ToggleReturnsPrev(filters, coinId)
         THEN /\ last' = Updated(filters, filters)
              /\ userActions' = userActions + 1
              /\ retry' = RetryKept
              /\ UNCHANGED <<env, config, provider, hidden, filters, availableCoins,
                             selectedCoinMarkets, chartData, loadingMarkets,
                             loadingChart, error, lastUpdated, fetches, poll, timer>>
         ELSE SetFilters(ToggleUpdater(filters, coinId), TRUE, r)

(***************************************************************************)
(* useCoinDashboard: refreshData and the polling timer                     *)
(***************************************************************************)
\* refreshData: both loaders under one controller that nothing aborts
refreshData ==
  /\ Interactive
  /\ userActions' = userActions + 1
  /\ retry' = RetryStarted
  /\ fetches' = fetches (+) BagOfSeq(AttemptLoaders("refresh", filters))
  /\ InFlight(fetches') <= MaxInFlight
  /\ loadingMarkets' = TRUE
  /\ loadingChart' = TRUE
  /\ last' = NoLast
  /\ UNCHANGED <<env, config, provider, hidden, filters, availableCoins, selectedCoinMarkets,
                 chartData, error, lastUpdated, poll, timer>>

\* the timeout calls attemptFetch
TimerFires ==
  /\ ~AbortedPending
  /\ UNCHANGED userActions
  /\ retry' = RetryKept
  /\ timer.pending
  /\ \E r \in Draws :
       IF poll.isFetching \/ ~AttemptIssues(hidden)
         THEN /\ timer' = scheduleNext(poll.failureCount, hidden, r)
              /\ UNCHANGED <<fetches, loadingMarkets, loadingChart, poll>>
         ELSE /\ timer' = NoTimer
              /\ poll' = PollAttempting(poll)
              /\ fetches' = fetches (+) BagOfSeq(AttemptLoaders("poll", filters))
              /\ InFlight(fetches') <= MaxInFlight
              /\ loadingMarkets' = TRUE
              /\ loadingChart' = TRUE
  /\ last' = TimerFired
  /\ UNCHANGED <<env, config, provider, hidden, filters, availableCoins, selectedCoinMarkets,
                 chartData, error, lastUpdated>>

\* the browser's visibilitychange
VisibilityChange ==
  /\ ~AbortedPending
  /\ UNCHANGED userActions
  /\ retry' = RetryKept
  /\ hidden' = ~hidden
  /\ last' = NoLast
  /\ UNCHANGED <<env, config, provider, filters, availableCoins, selectedCoinMarkets, chartData,
                 loadingMarkets, loadingChart, error, lastUpdated, fetches, poll, timer>>

(***************************************************************************)
(* useCoinDashboard: a loader's continuation after its await               *)
(***************************************************************************)
\* Whether a loader's promise rejects: both loaders catch whatever the
\* request throws, so it never does, whether the request failed or not.
LoaderRejects(requestFailed) == FALSE

PollAfterStillFetching(p, f, requestFailed) ==
  IF ~(f.origin = "poll" /\ f.live) THEN p
  ELSE IF p.pending > 1
    THEN [p EXCEPT !.pending = p.pending - 1, !.failed = p.failed \/ requestFailed]
  ELSE [p EXCEPT !.pending = 0, !.failed = FALSE]

\* The refs of the polling instance after loader f settled: the
\* continuation of attemptFetch once Promise.all has both results.
PollAfter(p, f, requestFailed) ==
  IF ~(f.origin = "poll" /\ f.live) THEN p
  ELSE IF p.pending > 1
    THEN [p EXCEPT !.pending = p.pending - 1, !.failed = p.failed \/ requestFailed]
  ELSE [isFetching |-> FALSE,
        failureCount |-> IF LoaderRejects(p.failed \/ requestFailed)
                           THEN Min(p.failureCount + 1, 6)
                           ELSE 0,
        pending |-> 0,
        failed |-> FALSE,
        streak |-> IF p.failed \/ requestFailed THEN Min(p.streak + 1, MaxStreak) ELSE 0]

TimerAfterSuccessOnly(p, f, requestFailed, r) ==
  IF f.origin = "poll" /\ f.live /\ p.pending = 1 /\ ~(p.failed \/ requestFailed)
    THEN scheduleNext(0, hidden, r)
    ELSE timer

\* if (!cancelled) scheduleNext(), in the finally of attemptFetch
TimerAfter(p, f, requestFailed, r) ==
  IF f.origin = "poll" /\ f.live /\ p.pending = 1
    THEN scheduleNext(PollAfter(p, f, requestFailed).failureCount, hidden, r)
    ELSE timer

\* what the provider may answer to a request of loader f
Responses(f) ==
  IF f.aborted THEN {AbortRejection}
  ELSE IF f.kind = "markets"
    THEN {HttpOk(rows) : rows \in provider.snapshots} \cup provider.failures
  ELSE {HttpOk(<<>>)} \cup provider.failures

\* history: the loader the step settled.  stale says that the filters it
\* closed over were no longer the current ones; attempt says how the
\* polling attempt ended, if this loader was the last one of an attempt
\* of the live polling instance.
Settled(f, resp) ==
  [settled |-> TRUE, fired |-> FALSE, status |-> resp.status, retryAfter |-> resp.retryAfter, kind |-> f.kind, origin |-> f.origin, aborted |-> f.aborted,
   live |-> f.live, stale |-> f.closure # Deps(f.kind, filters),
   run |-> f.run, ok |-> request(resp).ok, message |-> request(resp).message, closure |-> f.closure, rows |-> request(resp).rows,
   attempt |-> IF ~(f.origin = "poll" /\ f.live /\ poll.pending = 1) THEN "none"
               ELSE IF poll.failed \/ ~request(resp).ok THEN "failed" ELSE "ok"]

SignalAbortedNever(f) == FALSE

\* signal?.aborted, as the loaders test it after the await, in the catch
\* and in the finally
SignalAborted(f) == f.aborted

\* loadMarketOverview from the await on, with the render that follows
MarketsSettle(f, resp, r) ==
  LET rest == fetches (-) SetToBag({f})
      res == request(resp)
  IN  /\ f.kind = "markets"
      /\ UNCHANGED userActions
      /\ retry' = RetryAfter(f, res.ok)
      /\ f.aborted \/ ~AbortedPending
      /\ last' = Settled(f, resp)
      /\ UNCHANGED <<env, config, provider, hidden, chartData>>
      /\ IF SignalAborted(f)
           THEN /\ fetches' = rest
                /\ UNCHANGED <<filters, availableCoins, selectedCoinMarkets, loadingMarkets,
                               loadingChart, error, lastUpdated, poll, timer>>
         ELSE IF res.ok
           THEN /\ availableCoins' = res.rows
                /\ selectedCoinMarkets' = SelectedMarkets(f.closure, res.rows)
                /\ error' = Null
                /\ lastUpdated' = Some("Date")
                /\ Render(Reconciled(filters, f.closure, res.rows),
                          ReconcileWrites(f.closure, res.rows),
                          rest, FALSE, loadingChart,
                          PollAfter(poll, f, FALSE), TimerAfter(poll, f, FALSE, r), r,
                          Min(MaxCounted, f.run + 1))
         ELSE /\ error' = Some(ErrorMessage(res, "Unexpected error while loading market data."))
              /\ loadingMarkets' = FALSE
              /\ fetches' = rest
              /\ poll' = PollAfter(poll, f, TRUE)
              /\ timer' = TimerAfter(poll, f, TRUE, r)
              /\ UNCHANGED <<filters, availableCoins, selectedCoinMarkets, loadingChart,
                             lastUpdated>>

\* the series that answers a chart request
Series(closure) ==
  [coinId |-> closure.primaryCoin, vsCurrency |-> closure.vsCurrency,
   days |-> closure.timeRange]

\* loadChart from the await on
ChartSettle(f, resp, r) ==
  LET rest == fetches (-) SetToBag({f})
      res == request(resp)
  IN  /\ f.kind = "chart"
      /\ UNCHANGED userActions
      /\ retry' = RetryAfter(f, res.ok)
      /\ f.aborted \/ ~AbortedPending
      /\ last' = Settled(f, resp)
      /\ fetches' = rest
      /\ UNCHANGED <<env, config, provider, hidden, filters, availableCoins, selectedCoinMarkets,
                     loadingMarkets>>
      /\ IF SignalAborted(f)
           THEN UNCHANGED <<chartData, loadingChart, error, lastUpdated, poll, timer>>
         ELSE /\ loadingChart' = FALSE
              /\ poll' = PollAfter(poll, f, ~res.ok)
              /\ timer' = TimerAfter(poll, f, ~res.ok, r)
              /\ IF res.ok
                   THEN /\ chartData' = Some(Series(f.closure))
                        /\ error' = Null
                        /\ lastUpdated' = Some("Date")
                   ELSE /\ error' = Some(ErrorMessage(res, "Unexpected error while loading chart data."))
                        /\ UNCHANGED <<chartData, lastUpdated>>

MarketsResponse ==
  \E f \in BagToSet(fetches) :
    \E resp \in Responses(f), r \in Draws : MarketsSettle(f, resp, r)

ChartResponse ==
  \E f \in BagToSet(fetches) :
    \E resp \in Responses(f), r \in Draws : ChartSettle(f, resp, r)

(***************************************************************************)
(* The mounted hook                                                        *)
(***************************************************************************)
\* The state after the first render and its effects: the markets effect has
\* called loadMarketOverview, the chart effect has returned early, and the
\* polling effect, if enabled, has called attemptFetch.
Mounted(e, isHidden, r) ==
  /\ env = e
  /\ hidden = isHidden
  /\ filters = DEFAULT_FILTERS
  /\ availableCoins = <<>>
  /\ selectedCoinMarkets = <<>>
  /\ chartData = Null
  /\ error = Null
  /\ lastUpdated = Null
  /\ userActions = 0
  /\ retry = RetryIdle
  /\ last = NoLast
  /\ fetches = BagOfSeq(<<MarketsEffectLoader(DEFAULT_FILTERS, 1)>>
                        \o (IF PollingEnabled /\ AttemptIssues(isHidden)
                              THEN AttemptLoaders("poll", DEFAULT_FILTERS)
                              ELSE <<>>))
  /\ loadingMarkets = TRUE
  /\ loadingChart = (PollingEnabled /\ AttemptIssues(isHidden))
  /\ poll = IF PollingEnabled THEN PollStarted(isHidden) ELSE PollIdle
  /\ timer = IF PollingEnabled THEN TimerStarted(isHidden, r) ELSE NoTimer

\* the snapshots and the failures the provider answers with
Snapshots == { <<"bitcoin", "ethereum">>, <<"bitcoin">> }
Failures == { HttpFail(429, "", 12) }

\* The dashboard without auto-refresh (VITE_AUTO_REFRESH_MS unset), driven
\* by the filter panel and the refresh button on a visible page: nothing
\* but the polling effect reads document.hidden.
Init ==
  /\ provider = [snapshots |-> Snapshots, failures |-> Failures]
  /\ config = Unconfigured
  /\ Mounted(EnvUnset, FALSE, 0)

Next ==
  \/ handleCurrencyChange
  \/ handlePrimaryChange
  \/ handleRangeChange
  \/ handleCoinToggle
  \/ refreshData
  \/ MarketsResponse
  \/ ChartResponse

Spec == Init /\ [][Next]_vars

\* the values of VITE_AUTO_REFRESH_MS in the model
EnvValues == {EnvUnset, EnvNaN, EnvNum(0), EnvNum(-1000), EnvNum(2000), EnvNum(150)}

\* The polling loop under every value of VITE_AUTO_REFRESH_MS, before any
\* coin is selected: the market does not change, and a change of the time
\* range re-runs the polling effect.
InitPoll ==
  /\ provider = [snapshots |-> {<<"bitcoin", "ethereum">>}, failures |-> Failures]
  /\ config = Unconfigured
  /\ \E e \in EnvValues, isHidden \in BOOLEAN, r \in 0..(RandSteps - 1) :
       Mounted(e, isHidden, r)

NextPoll ==
  \/ TimerFires
  \/ VisibilityChange
  \/ handleRangeChange
  \/ MarketsResponse
  \/ ChartResponse

SpecPoll == InitPoll /\ [][NextPoll]_vars

\* the selections without repetition of at most n coins of the ranking
Selections(n) ==
  {sel \in UNION {[1..k -> Range(CoinRank)] : k \in 0..n} :
     \A i, j \in DOMAIN sel : i # j => sel[i] # sel[j]}

\* the snapshots of the market: the ranking restricted to any set of coins
Markets == {FilterKeep(CoinRank, S) : S \in SUBSET Range(CoinRank)}

\* The dashboard after the user has selected sel and made primary the
\* primary coin, every fetch has answered from the whole ranking, and the
\* user has then clicked refresh: refreshData has called both loaders.
Refreshing(sel, primary) ==
  /\ env = EnvUnset
  /\ hidden = FALSE
  /\ filters = [DEFAULT_FILTERS EXCEPT !.selectedCoins = sel, !.primaryCoin = primary]
  /\ availableCoins = CoinRank
  /\ selectedCoinMarkets = sel
  /\ chartData = IF primary = "" THEN Null ELSE Some(Series(ChartDeps(filters)))
  /\ error = Null
  /\ lastUpdated = Some("Date")
  /\ userActions = 1
  /\ retry = RetryIdle
  /\ last = NoLast
  /\ fetches = BagOfSeq(AttemptLoaders("refresh", filters))
  /\ loadingMarkets = TRUE
  /\ loadingChart = TRUE
  /\ poll = PollIdle
  /\ timer = NoTimer

\* Reconciliation of any selection against any snapshot of the market.
InitRecon ==
  /\ provider = [snapshots |-> Markets, failures |-> Failures]
  /\ config = Unconfigured
  /\ \E sel \in Selections(MaxSelected) :
       \E primary \in (IF sel = <<>> THEN {""} ELSE Range(sel)) : Refreshing(sel, primary)

NextRecon ==
  \/ MarketsResponse
  \/ ChartResponse

SpecRecon == InitRecon /\ [][NextRecon]_vars
\* what the updaters handed to setFilters return: any FilterState, whether
\* or not its primary coin is selected
UpdaterResults ==
  {[vsCurrency |-> c, timeRange |-> 30, selectedCoins |-> sel, primaryCoin |-> p] :
     c \in Currencies, sel \in {<<>>, <<"bitcoin">>, <<"solana">>}, p \in {"", "bitcoin"}}

\* a caller of the hook calls setFilters with some updater; the array the
\* updater returns may be the previous one only if it has the same coins
callSetFilters ==
  /\ Interactive
  /\ \E updated \in UpdaterResults, newArray \in BOOLEAN, r \in Draws :
       /\ updated.selectedCoins # filters.selectedCoins => newArray
       /\ SetFilters(updated, newArray, r)

\* The hook under arbitrary updaters, polling off.
NextSetFilters ==
  \/ callSetFilters
  \/ MarketsResponse
  \/ ChartResponse

SpecSetFilters == Init /\ [][NextSetFilters]_vars

\* a market of six coins, one more than can be selected
TopSix == CoinRank \o <<"ripple", "dogecoin">>

\* The dashboard at rest after the user has selected sel and made primary
\* the primary coin, and every fetch has answered with the snapshot market.
Resting(market, sel, primary) ==
  /\ env = EnvUnset
  /\ hidden = FALSE
  /\ filters = [DEFAULT_FILTERS EXCEPT !.selectedCoins = sel, !.primaryCoin = primary]
  /\ availableCoins = market
  /\ selectedCoinMarkets = sel
  /\ chartData = IF primary = "" THEN Null ELSE Some(Series(ChartDeps(filters)))
  /\ error = Null
  /\ lastUpdated = Some("Date")
  /\ userActions = 0
  /\ retry = RetryIdle
  /\ last = NoLast
  /\ fetches = EmptyBag
  /\ loadingMarkets = FALSE
  /\ loadingChart = FALSE
  /\ poll = PollIdle
  /\ timer = NoTimer

\* The filter panel over the six-coin market, from any number of selected
\* coins up to MAX_SELECTION; later snapshots may have lost the first coin.
InitPanel ==
  /\ provider = [snapshots |-> {TopSix, SubSeq(TopSix, 2, 6)}, failures |-> {}]
  /\ config = Unconfigured
  /\ \E k \in 0..MAX_SELECTION :
       Resting(TopSix, SubSeq(TopSix, 1, k), IF k = 0 THEN "" ELSE TopSix[1])

NextPanel ==
  \/ handleCurrencyChange
  \/ handlePrimaryChange
  \/ handleRangeChange
  \/ handleCoinToggle
  \/ MarketsResponse
  \/ ChartResponse

SpecPanel == InitPanel /\ [][NextPanel]_vars

\* import.meta.env with every combination of the VITE_COINGECKO_* variables
\* and of the build mode
Configs ==
  [VITE_COINGECKO_API_KEY : {"", "CG-key"},
   VITE_COINGECKO_API_ROOT : {"", OwnProxy},
   VITE_COINGECKO_USE_PRO_API : {"", "true", "false"},
   DEV : BOOLEAN]

\* The dashboard under each configuration of the service module, driven by
\* the refresh button.
InitConfig ==
  /\ provider = [snapshots |-> Snapshots, failures |-> Failures]
  /\ config \in Configs
  /\ Mounted(EnvUnset, FALSE, 0)

NextConfig ==
  \/ refreshData
  \/ MarketsResponse
  \/ ChartResponse

SpecConfig == InitConfig /\ [][NextConfig]_vars

\* the ways a request fails: the two connectivity rejections, a rejection
\* without message, an error status with and without body, a rate limit
ErrorFailures ==
  { HttpFail(0, ChromeRejection, 0), HttpFail(0, FirefoxRejection, 0),
    HttpFail(0, "", 0), HttpFail(500, "Internal Server Error", 0),
    HttpFail(500, "", 0), HttpFail(429, "", 12) }

\* The dashboard against a provider that fails in each of these ways,
\* driven by the refresh button.
InitErrors ==
  /\ provider = [snapshots |-> {<<"bitcoin", "ethereum">>}, failures |-> ErrorFailures]
  /\ config = Unconfigured
  /\ Mounted(EnvUnset, FALSE, 0)

NextErrors ==
  \/ refreshData
  \/ MarketsResponse
  \/ ChartResponse

SpecErrors == InitErrors /\ [][NextErrors]_vars

\* The panel at rest over the six-coin market, polling disabled, when the
\* first coin has left the market: from now on the provider answers every
\* snapshot request with the same five coins.
InitQuiesce ==
  /\ provider = [snapshots |-> {SubSeq(TopSix, 2, 6)}, failures |-> {}]
  /\ config = Unconfigured
  /\ \E k \in 0..MAX_SELECTION :
       Resting(TopSix, SubSeq(TopSix, 1, k), IF k = 0 THEN "" ELSE TopSix[1])

NextQuiesce ==
  \/ handleCurrencyChange
  \/ handlePrimaryChange
  \/ handleRangeChange
  \/ handleCoinToggle
  \/ MarketsResponse
  \/ ChartResponse

SpecQuiesce == InitQuiesce /\ [][NextQuiesce]_vars

(***************************************************************************)
(* Properties                                                              *)
(***************************************************************************)
\* the last step was the continuation of a snapshot fetch that succeeded
SnapshotFetchSucceeded ==
  last.settled /\ last.kind = "markets" /\ last.ok /\ ~last.aborted

\* C1: in every reachable state, and so right after every reconciliation
\* write, the primary coin is the empty string or one of the selected coins.
PrimaryIsEmptyOrSelected ==
  filters.primaryCoin = "" \/ filters.primaryCoin \in Range(filters.selectedCoins)

\* A reconciliation has just dropped a coin that left the market and, the
\* dropped coin having been the primary one, has written a new primary.
PrimaryRepairedByReconciliation ==
  /\ SnapshotFetchSucceeded
  /\ Len(filters.selectedCoins) < Len(last.closure.selectedCoins)
  /\ last.closure.primaryCoin \notin Range(last.rows)
  /\ filters.primaryCoin \notin {"", last.closure.primaryCoin}

\* result is input with exactly the entries kept whose id is in ids: some
\* order-preserving map sends result onto those entries of input.
IsRestriction(result, input, ids) ==
  \E f \in [DOMAIN result -> DOMAIN input] :
    /\ \A i, j \in DOMAIN result : i < j => f[i] < f[j]
    /\ \A i \in DOMAIN result : input[f[i]] = result[i]
    /\ {f[i] : i \in DOMAIN result} = {k \in DOMAIN input : input[k] \in ids}

\* C2: right after a successful snapshot fetch the selection is the
\* subsequence of the selection the fetch was started with made of exactly
\* the ids of the new snapshot: order kept, no id added, no listed id dropped.
ReconciledSelectionIsRestriction ==
  SnapshotFetchSucceeded =>
    IsRestriction(filters.selectedCoins, last.closure.selectedCoins, Range(last.rows))

\* A fetch started with [solana, bitcoin, ethereum] met a snapshot without
\* bitcoin: solana and ethereum remain, in the order of the selection.
MiddleCoinDropped ==
  /\ SnapshotFetchSucceeded
  /\ last.closure.selectedCoins = <<"solana", "bitcoin", "ethereum">>
  /\ "bitcoin" \notin Range(last.rows)
  /\ filters.selectedCoins = <<"solana", "ethereum">>

\* C3: right after a successful snapshot fetch the primary coin is the one
\* the fetch was started with if the reconciled selection has it, else the
\* first coin of the reconciled selection, else the empty string; the same
\* state holds the reconciled selection, the two being written together.
ReconciledPrimaryRule ==
  SnapshotFetchSucceeded =>
    /\ Range(filters.selectedCoins) = Range(last.closure.selectedCoins) \cap Range(last.rows)
    /\ filters.primaryCoin =
         IF last.closure.primaryCoin \in Range(filters.selectedCoins)
           THEN last.closure.primaryCoin
         ELSE IF filters.selectedCoins # <<>> THEN filters.selectedCoins[1]
         ELSE ""

\* Selection [bitcoin, ethereum, solana] with primary ethereum met the
\* snapshot {bitcoin, cardano}: selection [bitcoin] and primary bitcoin.
EthereumSolanaDelisted ==
  /\ SnapshotFetchSucceeded
  /\ last.closure.selectedCoins = <<"bitcoin", "ethereum", "solana">>
  /\ last.closure.primaryCoin = "ethereum"
  /\ Range(last.rows) = {"bitcoin", "cardano"}
  /\ filters.selectedCoins = <<"bitcoin">>
  /\ filters.primaryCoin = "bitcoin"

\* C4: a fetch whose filters were superseded before its response arrived
\* writes no coordinator state, whichever path started it.
StaleFetchWritesNothing ==
  [][(last'.settled /\ last'.stale) => UNCHANGED CoordState]_vars

\* the series fetches whose signal is not aborted
SeriesInFlight == InFlight([f \in {g \in BagToSet(fetches) : g.kind = "chart"} |-> fetches[f]])

\* C5: every series fetch in flight that was started under another primary
\* coin, currency or time range than the current ones has its signal
\* aborted, and at most one series fetch in flight has not.
SupersededSeriesFetchesAreAborted ==
  /\ \A f \in BagToSet(fetches) :
       f.kind = "chart" /\ f.closure # ChartDeps(filters) => f.aborted
  /\ SeriesInFlight <= 1

\* C6: no series request is in flight for the empty primary coin.
NoSeriesRequestWithoutPrimary ==
  \A f \in BagToSet(fetches) : f.kind = "chart" => f.closure.primaryCoin # ""

\* VITE_AUTO_REFRESH_MS is unset, not a number, zero or negative
IntervalOff == env.tag # "number" \/ env.num <= 0

\* C7: when the configured interval is 0, unset, negative or not a number,
\* no polling timer is pending and no polling fetch is in flight.
NoPollingWhenIntervalOff ==
  IntervalOff =>
    /\ ~timer.pending
    /\ \A f \in BagToSet(fetches) : f.origin # "poll"

\* Under a negative interval the first fetch has answered, and the time
\* range has changed, which re-runs the polling effect.
NegativeIntervalStaysIdle ==
  /\ env.tag = "number" /\ env.num < 0
  /\ availableCoins # <<>>
  /\ userActions > 0

\* the last step ended a polling attempt, and scheduled the next one
AttemptEnded(how) == last.settled /\ last.attempt = how

\* C8: after k consecutive failed polling attempts, the page being
\* visible, the delay of the next attempt before jitter is
\* AUTO_REFRESH_MS * min(2^k, 8).
BackoffAfterFailures ==
  AttemptEnded("failed") /\ ~hidden =>
    timer.base = AUTO_REFRESH_MS * Min(2 ^ poll.streak, 8)

\* |delay - target| is at most a tenth of target, in whole milliseconds
WithinTenth(delay, target) ==
  /\ delay - target <= (target + 9) \div 10
  /\ target - delay <= (target + 9) \div 10

\* the interval is large enough for the 1000 ms floor not to apply
AboveFloor == AUTO_REFRESH_MS - (AUTO_REFRESH_MS + 9) \div 10 >= 1000

\* C9 as stated: after an attempt whose two fetches succeeded the failure
\* counter is 0 and the next delay is within AUTO_REFRESH_MS * (1 +/- 0.1).
DelayAfterSuccessNearInterval ==
  AttemptEnded("ok") =>
    /\ poll.failureCount = 0
    /\ timer.pending
    /\ AboveFloor => WithinTenth(timer.delay, AUTO_REFRESH_MS)

\* C9: after an attempt whose two fetches succeeded the failure counter is
\* 0, and the next delay is within a tenth of AUTO_REFRESH_MS if the page
\* is visible at that moment, of 6 * AUTO_REFRESH_MS if it is hidden.
DelayAfterSuccess ==
  AttemptEnded("ok") =>
    /\ poll.failureCount = 0
    /\ timer.pending
    /\ AboveFloor =>
         WithinTenth(timer.delay, IF hidden THEN 6 * AUTO_REFRESH_MS ELSE AUTO_REFRESH_MS)

\* An attempt has succeeded on a visible page, under an interval above the
\* floor, and the next delay is not the interval itself: jitter acted.
JitteredAfterSuccess ==
  /\ AttemptEnded("ok") /\ ~hidden /\ AboveFloor
  /\ timer.delay # AUTO_REFRESH_MS

\* C10 as stated: a delay computed while the page is hidden is at least
\* 6 * AUTO_REFRESH_MS when it is passed to the timer.
HiddenDelayAtLeastSixIntervals ==
  timer.pending /\ timer.hidden => timer.delay >= 6 * AUTO_REFRESH_MS

\* C10: a delay computed while the page is hidden is at least
\* 6 * AUTO_REFRESH_MS before jitter, and what is passed to the timer is
\* at least nine tenths of that, and at least 1000 ms.
HiddenDelayFloor ==
  timer.pending /\ timer.hidden =>
    /\ timer.base >= 6 * AUTO_REFRESH_MS
    /\ timer.delay >= (54 * AUTO_REFRESH_MS) \div 10
    /\ timer.delay >= 1000

\* The page went hidden during an attempt, and the attempt's end scheduled
\* a delay shorter than 6 * AUTO_REFRESH_MS.
HiddenMidPollJitteredDown ==
  /\ last.settled /\ last.attempt # "none"
  /\ timer.pending /\ timer.hidden
  /\ timer.delay < 6 * AUTO_REFRESH_MS

\* the last step handled the answer to a request whose signal was not aborted
Answered(status) == last.settled /\ ~last.aborted /\ last.status = status

\* C11: a 429 answer with a Retry-After of n > 0 seconds sets error to the
\* rate-limit message with n filled in.
RateLimitMessageNamesRetryAfter ==
  Answered(429) /\ last.retryAfter > 0 =>
    error = Some(t("rateLimitMessage", last.retryAfter))

\* C12: a polling attempt in which a fetch failed raises the
\* consecutive-failure counter by exactly 1, up to 6.
FailedAttemptCounts ==
  [][(last'.settled /\ last'.attempt = "failed") =>
       poll'.failureCount = Min(poll.failureCount + 1, 6)]_vars

\* C13: the completion of an attempt of the live polling instance, whether
\* its fetches succeeded or failed, leaves a next timer pending and the
\* instance free to fetch again.
CompletedAttemptReschedules ==
  AttemptEnded("ok") \/ AttemptEnded("failed") =>
    timer.pending /\ ~poll.isFetching /\ timer.delay >= 1000

\* A polling attempt with a failed fetch has completed twice in a row, and
\* the next timer is pending.
FailedAttemptsKeepPolling ==
  AttemptEnded("failed") /\ poll.streak >= 2 /\ timer.pending

\* C14: when a fetch of an attempt that was in flight at the teardown of
\* its polling instance completes, nothing is scheduled and no coordinator
\* state changes.
TornDownAttemptIsNoOp ==
  [][(last'.settled /\ last'.origin = "poll" /\ ~last'.live) =>
       UNCHANGED <<CoordState, timer, poll>>]_vars

\* C15: when the polling timer fires while the page is hidden or an attempt
\* of the instance is in flight, no request is issued, a timer is pending
\* afterwards, and the consecutive-failure counter keeps its value.
BlockedTimerOnlyReschedules ==
  [][(last'.fired /\ (hidden \/ poll.isFetching)) =>
       /\ fetches' = fetches
       /\ timer'.pending
       /\ poll'.failureCount = poll.failureCount]_vars

\* The timer has fired on a hidden page and a next timer is pending.
TimerFiredWhileHidden ==
  last.fired /\ hidden /\ timer.pending /\ timer.hidden

\* C16: a loader whose signal is aborted when its response or error is
\* handled changes no coordinator state: data, filters, lastUpdated, error
\* and the loading flags keep their values.
AbortedFetchWritesNothing ==
  [][(last'.settled /\ last'.aborted) => UNCHANGED CoordState]_vars

\* The rejection of an aborted snapshot fetch has been handled while the
\* fetch that superseded it is loading, and error is still null.
AbortDiscardedSilently ==
  /\ last.settled /\ last.aborted /\ last.kind = "markets"
  /\ loadingMarkets
  /\ error = Null

\* C17: right after setFilters(updater) the FilterState is exactly what the
\* updater returned, nothing validated, defaulted or repaired; and before
\* any call and any answer it is usd, 30 days, no selection, no primary.
SetFiltersStoresUpdaterResult ==
  /\ "updater" \in DOMAIN last => filters = last.updater
  /\ userActions = 0 /\ availableCoins = <<>> /\ error = Null =>
       filters = [vsCurrency |-> "usd", timeRange |-> 30,
                  selectedCoins |-> <<>>, primaryCoin |-> ""]

\* An updater has returned an empty selection and an empty primary from a
\* state that had a coin selected, and that is the FilterState.
SelectionEmptiedByUpdater ==
  /\ "updater" \in DOMAIN last
  /\ last.prev.selectedCoins # <<>>
  /\ last.updater.selectedCoins = <<>> /\ last.updater.primaryCoin = ""
  /\ filters.selectedCoins = <<>> /\ filters.primaryCoin = ""

\* the last step was a FilterPanel action
PanelActed == "updater" \in DOMAIN last

\* C18: selectedCoins never has more than five entries, and a panel action
\* taken while five coins are selected brings in no further coin.
AtMostFiveSelected ==
  /\ Len(filters.selectedCoins) <= 5
  /\ PanelActed /\ Len(last.prev.selectedCoins) = 5 =>
       Range(filters.selectedCoins) \subseteq Range(last.prev.selectedCoins)

\* With five coins selected the toggle of a sixth one has returned the
\* FilterState unchanged.
SixthCoinRefused ==
  /\ PanelActed
  /\ Len(last.prev.selectedCoins) = 5
  /\ last.updater = last.prev
  /\ filters = last.prev

\* the coins the last panel action added to the selection
JustAdded == Range(filters.selectedCoins) \ Range(last.prev.selectedCoins)

\* C19 as stated: after a toggle has added a coin to any selection, a
\* second toggle of that coin gives back the list before the first toggle.
SecondToggleRestoresAnySelection ==
  PanelActed =>
    \A coinId \in JustAdded :
      ToggleUpdater(filters, coinId).selectedCoins = last.prev.selectedCoins

\* C19: after a toggle has added a coin to a selection that was not empty,
\* the added coin is the last entry and a second toggle of it gives back
\* the list before the first toggle.
SecondToggleRestoresSelection ==
  PanelActed /\ last.prev.selectedCoins # <<>> =>
    \A coinId \in JustAdded :
      /\ filters.selectedCoins = Append(last.prev.selectedCoins, coinId)
      /\ ToggleUpdater(filters, coinId).selectedCoins = last.prev.selectedCoins

\* A toggle has removed the last entry of a selection of three coins, the
\* step that undoes the toggle that added it.
LastAddedCoinRemoved ==
  /\ PanelActed
  /\ Len(filters.selectedCoins) = 2
  /\ \E coinId \in Range(TopSix) :
       last.prev.selectedCoins = Append(filters.selectedCoins, coinId)

\* C20: no panel action empties a selection that was not empty, and the
\* only selected coin is still selected after any panel action.
SelectionStaysNonEmpty ==
  PanelActed /\ last.prev.selectedCoins # <<>> =>
    /\ filters.selectedCoins # <<>>
    /\ Len(last.prev.selectedCoins) = 1 =>
         last.prev.selectedCoins[1] \in Range(filters.selectedCoins)

\* The toggle of the only selected coin has returned the FilterState
\* unchanged.
OnlyCoinKept ==
  /\ PanelActed
  /\ Len(last.prev.selectedCoins) = 1
  /\ last.updater = last.prev
  /\ filters = last.prev

\* C21: with an empty VITE_COINGECKO_API_KEY every request in flight goes
\* to the public endpoint and carries no API-key header, whatever the API
\* root override, the USE_PRO flag and the build mode.
EmptyKeyUsesPublicApi ==
  config.VITE_COINGECKO_API_KEY = "" =>
    \A f \in BagToSet(fetches) :
      Endpoint(f.base) = PublicApi /\ DOMAIN f.headers = {"Accept"}

\* C22: right after the second loader of a refreshData call has handled its
\* answer, error is non-null if one of the two requests failed and null if
\* both succeeded.
ErrorReflectsRetryOutcome ==
  (last.settled /\ last.origin = "refresh"
     /\ ~RefreshInFlight(fetches) /\ ~retry.overlapped) =>
    ((error # Null) <=> retry.failed)

\* C23: right after a successful snapshot fetch selectedCoinMarkets holds
\* the snapshot's entry of each coin of the selection the fetch reconciled,
\* in the order of the selection, once each, and nothing else; it lists the
\* coins of filters.selectedCoins if the filters the fetch was started with
\* were still the current ones.
ProjectionFollowsSelection ==
  SnapshotFetchSucceeded =>
    /\ IsRestriction(selectedCoinMarkets, last.closure.selectedCoins, Range(last.rows))
    /\ Cardinality(Range(selectedCoinMarkets)) = Len(selectedCoinMarkets)
    /\ ~last.stale => selectedCoinMarkets = filters.selectedCoins

\* A fetch started with [solana, bitcoin, ethereum] met a snapshot without
\* ethereum: the projection is [solana, bitcoin], not in snapshot order.
ProjectionInSelectionOrder ==
  /\ SnapshotFetchSucceeded
  /\ last.closure.selectedCoins = <<"solana", "bitcoin", "ethereum">>
  /\ "ethereum" \notin Range(last.rows)
  /\ selectedCoinMarkets = <<"solana", "bitcoin">>

\* the last step handled a failed request whose signal was not aborted and
\* whose answer was no rate limit
FailedOtherwise ==
  last.settled /\ ~last.aborted /\ ~last.ok /\ last.status # 429

ConnectivityMessage ==
  Message("No se pudo conectar con CoinGecko. Revisa tu conexion o intenta de nuevo.")

GenericFallback(kind) ==
  IF kind = "markets" THEN Message("Unexpected error while loading market data.")
  ELSE Message("Unexpected error while loading chart data.")

\* C24: a failure that is neither cancelled nor a rate limit sets error to
\* a non-empty message: the connectivity message if the underlying message
\* contains "Failed to fetch" or "NetworkError", else the underlying
\* message itself, else, that one being empty, the generic fallback.
FailureSetsMessage ==
  FailedOtherwise =>
    /\ error # Null
    /\ error[1].text # ""
    /\ error[1] =
         IF \/ StringIncludes(last.message, "Failed to fetch")
            \/ StringIncludes(last.message, "NetworkError")
           THEN ConnectivityMessage
         ELSE IF last.message # "" THEN Message(last.message)
         ELSE GenericFallback(last.kind)

\* A series request was rejected with "TypeError: Failed to fetch" and the
\* connectivity message is shown.
ConnectivityFailureShown ==
  /\ FailedOtherwise
  /\ last.kind = "chart"
  /\ last.message = ChromeRejection
  /\ error = Some(ConnectivityMessage)

\* the last step handled a rejection or an answer with an error status to
\* a request whose signal was not aborted
FetchFailed ==
  last.settled /\ ~last.aborted /\ (last.status < 200 \/ last.status > 299)

\* C25: a fetch that fails without being cancelled writes error and its
\* own loading flag only: filters, availableCoins, selectedCoinMarkets,
\* chartData and lastUpdated keep their values, and so does the loading
\* flag of the other loader.
FailedFetchKeepsData ==
  [][FetchFailed' =>
       /\ UNCHANGED <<filters, availableCoins, selectedCoinMarkets, chartData, lastUpdated>>
       /\ last'.kind = "markets" => UNCHANGED loadingChart
       /\ last'.kind = "chart" => UNCHANGED loadingMarkets]_vars

\* A snapshot request has failed after an earlier one had succeeded: the
\* market of the earlier answer is still there, next to the error.
SnapshotKeptAfterFailure ==
  /\ FetchFailed
  /\ last.kind = "markets"
  /\ error # Null
  /\ availableCoins = <<"bitcoin", "ethereum">>
  /\ lastUpdated # Null

\* C26: loadingChart is true only while a series fetch is pending: once
\* every call of loadChart has run to its end, with an answer or cancelled,
\* loadingChart is false.
LoadingChartOnlyWhileFetching ==
  (\A f \in BagToSet(fetches) : f.kind # "chart") => ~loadingChart

\* C27: loadingMarkets is true whenever a snapshot fetch whose signal is
\* not aborted is in flight, also when several of them overlap.
LoadingMarketsWhileFetching ==
  (\E f \in BagToSet(fetches) : f.kind = "markets" /\ ~f.aborted) => loadingMarkets

\* C28: with polling disabled and a provider that keeps answering with the
\* same snapshot, a filter change that no other user action follows leads
\* to at most two runs of the markets effect, the second one caused by the
\* reconciliation write of the first, and once its fetches have been
\* answered the FilterState is reconciled: that snapshot would write
\* nothing.
AtMostTwoSnapshotFetches ==
  ~PollingEnabled /\ userActions = 1 =>
    /\ \A f \in BagToSet(fetches) : f.run <= 2
    /\ SnapshotFetchSucceeded =>
         /\ last.run <= 2
         /\ fetches = EmptyBag =>
              \A data \in provider.snapshots : ~ReconcileWrites(filters, data)

\* A filter change was followed by a snapshot fetch that dropped a coin
\* and by a second one that wrote nothing, and no fetch is pending.
QuiescentAfterSecondFetch ==
  /\ userActions = 1
  /\ SnapshotFetchSucceeded
  /\ last.run = 2
  /\ fetches = EmptyBag

\* the loader calls of the attempt of the live polling instance, of one kind
LiveAttemptLoaders(kind) ==
  SumCopies({f \in BagToSet(fetches) : f.origin = "poll" /\ f.live /\ f.kind = kind},
            fetches)

\* C29: the live instance of an enabled polling loop has either its timer
\* pending or one attempt in flight, never both and never neither; an
\* attempt has at most one loader of each kind, and a timer is set only
\* when none is pending.
OneTimerOrOneAttempt ==
  /\ [](PollingEnabled =>
          /\ timer.pending # poll.isFetching
          /\ LiveAttemptLoaders("markets") <= 1 /\ LiveAttemptLoaders("chart") <= 1
          /\ poll.isFetching <=>
               LiveAttemptLoaders("markets") + LiveAttemptLoaders("chart") > 0)
  /\ [][(last'.settled /\ last'.attempt # "none") => ~timer.pending]_vars

\* The timer of a visible page has fired and started an attempt: both
\* loaders are in flight and no timer is pending.
TimerStartedAttempt ==
  /\ PollingEnabled
  /\ last = TimerFired
  /\ poll.isFetching /\ ~timer.pending
  /\ LiveAttemptLoaders("markets") = 1 /\ LiveAttemptLoaders("chart") = 1

====
